---- MODULE Spec2Model ----
(***************************************************************************)
(* Model of src/hdf5Work/chatGPT-HDF5reader.py: classify_datasets walks an *)
(* HDF5 tree, detects dimension candidates, sorts every dataset into       *)
(* measures / dimensions / attributes, and build_jsonld turns the three    *)
(* groups into a JSON-LD document.                                         *)
(*                                                                         *)
(* Text is modelled as a sequence of one-character strings (a path "g/x"   *)
(* is <<"g","/","x">>), so lower(), split("/") and the substring test are  *)
(* computed.  Attribute keys and values are records [kind, val] whose val  *)
(* is a sequence of numbers: code points of a str, the bytes of a          *)
(* numpy.bytes_, the items of an ndarray or list, the number of an int.    *)
(***************************************************************************)
EXTENDS Integers, Sequences, FiniteSets, TLC

VARIABLES
    h5file,          \* the objects of the open file, in visititems order
    pc,              \* where the script stands: "open", "classified", "built", "raised"
    run,             \* which execution of the script this is (1 or 2)
    dim_candidates,  \* classify_datasets' candidate set, as its last call left it
    classification,  \* what classify_datasets returned
    jsonld,          \* what build_jsonld returned
    prev             \* file, candidates, classification, document of execution 1

vars == <<h5file, pc, run, dim_candidates, classification, jsonld, prev>>

-----------------------------------------------------------------------------
(* Bounds of the model *)

\* most objects in one tree
MaxNodes == 2
\* longest axis of a dataset
MaxAxisLen == 2

-----------------------------------------------------------------------------
(* Text helpers *)

Range(s) == {s[j] : j \in 1..Len(s)}

\* str.lower() on one character (the alphabet the paths use)
LowerChar(c) ==
    CASE c = "T" -> "t"
      [] c = "I" -> "i"
      [] c = "M" -> "m"
      [] c = "E" -> "e"
      [] OTHER -> c

\* str.lower()
Lower(s) == [j \in 1..Len(s) |-> LowerChar(s[j])]

\* the Python test  sub in s  on strings
StrContains(sub, s) ==
    \E k \in 0..(Len(s) - Len(sub)) :
        \A j \in 1..Len(sub) : s[k + j] = sub[j]

\* s.split("/")[-1]: the text after the last "/"
RECURSIVE LastSegment(_)
LastSegment(s) ==
    IF \E j \in 1..Len(s) : s[j] = "/"
    THEN LastSegment(Tail(s))
    ELSE s

TimeWord == <<"t", "i", "m", "e">>

-----------------------------------------------------------------------------
(* The values an HDF5 tree holds *)

\* dataset and group paths as h5py's visititems reports them (no leading "/")
Paths ==
    { <<"x">>,
      <<"g", "/", "T", "i", "m", "e">>,
      <<"t", "i", "m", "e", "/", "l">> }

\* Dataset.shape: None for a dataset with a null dataspace, else a tuple
NoneShape == [isNone |-> TRUE, t |-> <<>>]
TupleShape(t) == [isNone |-> FALSE, t |-> t]

Shapes ==
    {NoneShape, TupleShape(<<>>)}
        \cup {TupleShape(<<n>>) : n \in 1..MaxAxisLen}
        \cup {TupleShape(<<n, m>>) : n \in 1..MaxAxisLen, m \in 1..MaxAxisLen}

\* str(obj.dtype): a float, a fixed-length byte string, a compound type
DTypes == {"float64", "|S8", "[('a', '<f4')]"}

\* the labels of a dataset's dimension scales, one per axis ("" when unset)
Labels == {<<>>, <<"x">>}

DimsOf(shape) ==
    IF shape.isNone THEN {<<>>} ELSE [1..Len(shape.t) -> Labels]

\* attribute keys and values
PyStr(codes) == [kind |-> "str", val |-> codes]
PyBytes(bytes) == [kind |-> "bytes", val |-> bytes]
PyInt(n) == [kind |-> "int", val |-> <<n>>]
PyNdarray(items) == [kind |-> "ndarray", val |-> items]
PyList(items) == [kind |-> "list", val |-> items]
PyNone == [kind |-> "None", val |-> <<>>]

\* "units" -> b"e\xff", "scale" -> 3, "axes" -> array([1, 2])
AttrUnits == [k |-> PyStr(<<117, 110, 105, 116, 115>>), v |-> PyBytes(<<101, 255>>)]
AttrScale == [k |-> PyStr(<<115, 99, 97, 108, 101>>), v |-> PyInt(3)]
AttrAxes == [k |-> PyStr(<<97, 120, 101, 115>>), v |-> PyNdarray(<<1, 2>>)]

\* obj.attrs.items() in the file's order
AttrMaps == {<<>>, <<AttrUnits, AttrScale, AttrAxes>>}

Datasets ==
    UNION { { [kind |-> "Dataset", name |-> p, shape |-> s, dtype |-> d,
               attrs |-> a, dims |-> l] : l \in DimsOf(s) }
            : p \in Paths, s \in Shapes, d \in DTypes, a \in AttrMaps }

Groups ==
    { [kind |-> "Group", name |-> p, shape |-> NoneShape, dtype |-> "",
       attrs |-> <<>>, dims |-> <<>>] : p \in Paths }

Objects == Datasets \cup Groups

\* what reading d.label of one axis may do besides returning a label: the
\* proxy has no label attribute (AttributeError), or the read fails with any
\* other error
NoLabelAttr == <<"AttributeError">>
ReadError == <<"OSError">>

LabelReads == Labels \cup {NoLabelAttr, ReadError}

\* the axes of a dataset of which at least one label read fails
FaultyDimsOf(shape) ==
    IF shape.isNone THEN {}
    ELSE { l \in [1..Len(shape.t) -> LabelReads] :
             \E j \in 1..Len(shape.t) : l[j] \notin Labels }

FaultyDatasets ==
    UNION { { [kind |-> "Dataset", name |-> p, shape |-> s, dtype |-> d,
               attrs |-> a, dims |-> l] : l \in FaultyDimsOf(s) }
            : p \in Paths, s \in Shapes, d \in DTypes, a \in AttrMaps }

WalkObjects == Objects \cup FaultyDatasets

\* a tree in visitation order: every path names one object
Trees ==
    { t \in UNION {[1..n -> Objects] : n \in 0..MaxNodes} :
        \A a, b \in 1..Len(t) : a # b => t[a].name # t[b].name }

-----------------------------------------------------------------------------
(* classify_datasets: the tree walk *)

\* v.tolist() if isinstance(v, np.ndarray) else v
ToPlain(v) == IF v.kind = "ndarray" THEN PyList(v.val) ELSE v

\* [d.label for d in obj.dims if hasattr(d, "label")]: hasattr answers False
\* on an AttributeError and the axis is left out
LabelsRead(dims) == SelectSeq(dims, LAMBDA d : d # NoLabelAttr)

\* hasattr lets every error but AttributeError through, and the visitor has
\* no handler: the visitor raises
VisitorRaises(obj) ==
    /\ obj.kind = "Dataset"
    /\ \E j \in 1..Len(obj.dims) : obj.dims[j] = ReadError

\* h5file.visititems(visitor) raises what the visitor raises
WalkRaises(tree) == \E j \in 1..Len(tree) : VisitorRaises(tree[j])

\* the record the visitor stores for one dataset
InfoOf(obj) ==
    [path |-> obj.name,
     shape |-> obj.shape,
     dtype |-> obj.dtype,
     attrs |-> [j \in 1..Len(obj.attrs) |->
                   [k |-> obj.attrs[j].k, v |-> ToPlain(obj.attrs[j].v)]],
     dims |-> LabelsRead(obj.dims)]

\* h5file.visititems(visitor): datasets_info in insertion order, groups skipped
RECURSIVE Visititems(_)
Visititems(tree) ==
    IF tree = <<>> THEN <<>>
    ELSE IF Head(tree).kind = "Dataset"
         THEN <<InfoOf(Head(tree))>> \o Visititems(Tail(tree))
         ELSE Visititems(Tail(tree))

\* datasets_info[d]
Lookup(datasets_info, d) ==
    (CHOOSE j \in 1..Len(datasets_info) : datasets_info[j].path = d)

-----------------------------------------------------------------------------
(* classify_datasets: the dimension candidates *)

\* DetectOne without the dimension-scale clause of lines 35-37
DetectOne_RankOnly(cands, info) ==
    IF info.shape.isNone
    THEN cands
    ELSE IF Len(info.shape.t) = 1 THEN cands \cup {info.path} ELSE cands

\* one iteration of the candidate loop: len(None) raises and the except
\* clause prints, leaving the set as it was
DetectOne(cands, info) ==
    IF info.shape.isNone
    THEN cands
    ELSE LET byRank == IF Len(info.shape.t) = 1
                       THEN cands \cup {info.path}
                       ELSE cands
         IN IF \E j \in 1..Len(info.dims) : info.dims[j] # <<>>
            THEN byRank \cup {info.path}
            ELSE byRank

RECURSIVE DetectFrom(_, _)
DetectFrom(cands, infos) ==
    IF infos = <<>> THEN cands
    ELSE DetectFrom(DetectOne(cands, Head(infos)), Tail(infos))

\* the set after the loop of lines 29-39
DimCandidates(datasets_info) == DetectFrom({}, datasets_info)

-----------------------------------------------------------------------------
(* classify_datasets: the classification *)

EmptyClassification == [measures |-> <<>>, dimensions |-> <<>>, attributes |-> <<>>]

\* np.dtype(tag) understands the tag
DtypeReadable(tag) == tag \in {"float64", "|S8"}

\* np.issubdtype(np.dtype(tag), np.number), for a readable tag
IsNumber(tag) == tag = "float64"

\* the orders in which a set of paths may be iterated: the order of a set of
\* str follows the strings' hashes, which differ from one process to the next
SetOrders(S) ==
    { o \in [1..Cardinality(S) -> S] : \A a, b \in 1..Cardinality(S) : a # b => o[a] # o[b] }

\* [datasets_info[d]["shape"][0] for d in dim_candidates if datasets_info[d]["shape"]]
RECURSIVE DimLens(_, _)
DimLens(datasets_info, order) ==
    IF order = <<>> THEN <<>>
    ELSE LET shape == datasets_info[Lookup(datasets_info, Head(order))].shape
         IN IF Len(shape.t) > 0
            THEN <<shape.t[1]>> \o DimLens(datasets_info, Tail(order))
            ELSE DimLens(datasets_info, Tail(order))

\* AnyAligned that compares with the first length of the list only
AnyAligned_FirstOnly(info, lens) ==
    IF lens = <<>> THEN "False"
    ELSE IF info.shape.isNone THEN "raise"
    ELSE IF Len(info.shape.t) > 0 /\ Head(lens) \in Range(info.shape.t) THEN "True"
    ELSE "False"

\* any(len(info["shape"]) > 0 and dim_len in info["shape"] for dim_len in lens):
\* "True", "False", or "raise" when len() is applied to None
RECURSIVE AnyAligned(_, _)
AnyAligned(info, lens) ==
    IF lens = <<>> THEN "False"
    ELSE IF info.shape.isNone THEN "raise"
    ELSE IF Len(info.shape.t) > 0 /\ Head(lens) \in Range(info.shape.t) THEN "True"
    ELSE AnyAligned(info, Tail(lens))

\* GroupOf when candidates are detected in the same pass that classifies, so
\* that only the candidates visited up to info are known
GroupOf_SeenSoFar(info, datasets_info, cands, order) ==
    LET me == Lookup(datasets_info, info.path)
        seen == {c \in cands : Lookup(datasets_info, c) <= me}
        seenOrder == SelectSeq(order, LAMBDA c : c \in seen)
    IN IF info.path \in seen
       THEN IF ~DtypeReadable(info.dtype) THEN "none"
            ELSE IF IsNumber(info.dtype) \/ StrContains(TimeWord, Lower(info.path))
                 THEN "dimensions"
                 ELSE "attributes"
       ELSE LET hit == AnyAligned(info, DimLens(datasets_info, seenOrder))
            IN CASE hit = "raise" -> "none"
                 [] hit = "True" -> "measures"
                 [] OTHER -> "attributes"

\* GroupOf with the shape test of lines 53-55 tried before the candidate test
GroupOf_ShapeFirst(info, datasets_info, cands, order) ==
    LET hit == AnyAligned(info, DimLens(datasets_info, order))
    IN CASE hit = "raise" -> "none"
         [] hit = "True" -> "measures"
         [] info.path \in cands ->
               IF ~DtypeReadable(info.dtype) THEN "none"
               ELSE IF IsNumber(info.dtype) \/ StrContains(TimeWord, Lower(info.path))
                    THEN "dimensions"
                    ELSE "attributes"
         [] OTHER -> "attributes"

\* the group the body of the loop of lines 42-59 appends info to; "none" when
\* the body raises and the except clause only prints
GroupOf(info, datasets_info, cands, order) ==
    IF info.path \in cands
    THEN IF ~DtypeReadable(info.dtype) THEN "none"
         ELSE IF IsNumber(info.dtype) \/ StrContains(TimeWord, Lower(info.path))
              THEN "dimensions"
              ELSE "attributes"
    ELSE LET hit == AnyAligned(info, DimLens(datasets_info, order))
         IN CASE hit = "raise" -> "none"
              [] hit = "True" -> "measures"
              [] OTHER -> "attributes"

ClassifyOne(cls, info, datasets_info, cands, order) ==
    LET g == GroupOf(info, datasets_info, cands, order)
    IN CASE g = "measures" -> [cls EXCEPT !.measures = Append(@, info)]
         [] g = "dimensions" -> [cls EXCEPT !.dimensions = Append(@, info)]
         [] g = "attributes" -> [cls EXCEPT !.attributes = Append(@, info)]
         [] OTHER -> cls

RECURSIVE ClassifyFrom(_, _, _, _, _)
ClassifyFrom(cls, todo, datasets_info, cands, order) ==
    IF todo = <<>> THEN cls
    ELSE ClassifyFrom(ClassifyOne(cls, Head(todo), datasets_info, cands, order),
                      Tail(todo), datasets_info, cands, order)

-----------------------------------------------------------------------------
(* build_jsonld *)

\* bytes.decode("utf-8", errors="replace") on ASCII bytes and on 0xFF, which
\* no UTF-8 sequence contains: each 0xFF becomes U+FFFD
DecodeByte(b) == IF b < 128 THEN b ELSE 65533

Utf8Decode(bytes) == [j \in 1..Len(bytes) |-> DecodeByte(bytes[j])]

\* checkForBytes: no return statement on the path of a value that is not bytes
checkForBytes(inval) ==
    IF inval.kind = "bytes" THEN PyStr(Utf8Decode(inval.val)) ELSE PyNone

\* the entry add_var appends
VarEntry(info, role) ==
    [type |-> "PropertyValue",
     name |-> LastSegment(info.path),
     dataset |-> <<"/">> \o info.path,
     encodingFormat |-> "application/x-hdf5",
     role |-> role,
     additionalProperty |->
        [j \in 1..Len(info.attrs) |->
            [type |-> "PropertyValue",
             name |-> checkForBytes(info.attrs[j].k),
             value |-> checkForBytes(info.attrs[j].v)]]]

EntriesOf(infos, role) == [j \in 1..Len(infos) |-> VarEntry(infos[j], role)]

\* build_jsonld with the loops of lines 94-97 swapped
BuildJsonld_DimensionsFirst(cls, dataset_name) ==
    [context |-> [vocab |-> "https://schema.org/",
                  ddi |-> "https://ddi-alliance.org/ns/cdi#"],
     type |-> "Dataset",
     name |-> dataset_name,
     variableMeasured |->
        EntriesOf(cls.dimensions, "Dimension")
            \o EntriesOf(cls.measures, "Measure")
            \o EntriesOf(cls.attributes, "Attribute")]

DatasetName == "Example HDF5 Dataset"

BuildJsonld(cls, dataset_name) ==
    [context |-> [vocab |-> "https://schema.org/",
                  ddi |-> "https://ddi-alliance.org/ns/cdi#"],
     type |-> "Dataset",
     name |-> dataset_name,
     variableMeasured |->
        EntriesOf(cls.measures, "Measure")
            \o EntriesOf(cls.dimensions, "Dimension")
            \o EntriesOf(cls.attributes, "Attribute")]

NoDocument == [context |-> [vocab |-> "", ddi |-> ""], type |-> "", name |-> "",
               variableMeasured |-> <<>>]

-----------------------------------------------------------------------------
(* The runs: the script's main block, executed twice on the same file *)

NoRun == [h5file |-> <<>>, dim_candidates |-> {}, classification |-> EmptyClassification,
          jsonld |-> NoDocument]

Init ==
    /\ h5file \in Trees
    /\ pc = "open"
    /\ run = 1
    /\ dim_candidates = {}
    /\ classification = EmptyClassification
    /\ jsonld = NoDocument
    /\ prev = NoRun

\* classification = classify_datasets(f); an error of the walk leaves
\* classify_datasets and ends the script
ClassifyDatasets ==
    /\ pc = "open"
    /\ IF WalkRaises(h5file)
       THEN /\ pc' = "raised"
            /\ UNCHANGED <<dim_candidates, classification>>
       ELSE /\ LET datasets_info == Visititems(h5file)
                   cands == DimCandidates(datasets_info)
               IN /\ dim_candidates' = cands
                  /\ \E order \in SetOrders(cands) :
                        classification' =
                            ClassifyFrom(EmptyClassification,
                                         datasets_info, datasets_info, cands, order)
            /\ pc' = "classified"
    /\ UNCHANGED <<h5file, run, jsonld, prev>>

\* jsonld_doc = build_jsonld(classification, dataset_name=...)
BuildDocument ==
    /\ pc = "classified"
    /\ jsonld' = BuildJsonld(classification, DatasetName)
    /\ pc' = "built"
    /\ UNCHANGED <<h5file, run, dim_candidates, classification, prev>>

\* the script is run again on a file with the same objects, which the walk
\* may visit in another order
RunAgain ==
    /\ pc = "built"
    /\ run = 1
    /\ prev' = [h5file |-> h5file, dim_candidates |-> dim_candidates,
                classification |-> classification, jsonld |-> jsonld]
    /\ \E o \in SetOrders(1..Len(h5file)) :
            h5file' = [j \in 1..Len(h5file) |-> h5file[o[j]]]
    /\ run' = 2
    /\ pc' = "open"
    /\ dim_candidates' = {}
    /\ classification' = EmptyClassification
    /\ jsonld' = NoDocument

Next == ClassifyDatasets \/ BuildDocument \/ RunAgain

Spec == Init /\ [][Next]_vars

\* one execution on a file in which label reads may fail
InitWalk ==
    /\ \E n \in 0..MaxNodes :
          /\ h5file \in [1..n -> WalkObjects]
          /\ \A a, b \in 1..n : a # b => h5file[a].name # h5file[b].name
    /\ pc = "open"
    /\ run = 1
    /\ dim_candidates = {}
    /\ classification = EmptyClassification
    /\ jsonld = NoDocument
    /\ prev = NoRun

NextWalk == ClassifyDatasets \/ BuildDocument

SpecWalk == InitWalk /\ [][NextWalk]_vars

\* the paths in the order of the walk
WalkOrder ==
    << <<"g", "/", "T", "i", "m", "e">>,
       <<"t", "i", "m", "e", "/", "l">>,
       <<"x">> >>

\* the objects a path may name in a file whose dimension scales have no label
UnlabelledObjectsAt(p) ==
    {o \in Objects : o.name = p /\ \A j \in 1..Len(o.dims) : o.dims[j] = <<>>}

\* a file with an object at each of the three paths, executed twice
InitTwice ==
    /\ \E a \in UnlabelledObjectsAt(WalkOrder[1]), b \in UnlabelledObjectsAt(WalkOrder[2]),
          c \in UnlabelledObjectsAt(WalkOrder[3]) :
            h5file = <<a, b, c>>
    /\ pc = "open"
    /\ run = 1
    /\ dim_candidates = {}
    /\ classification = EmptyClassification
    /\ jsonld = NoDocument
    /\ prev = NoRun

\* another process executes the script on the same file, walked in the same
\* order; its sets iterate in an order of their own
RunSame ==
    /\ pc = "built"
    /\ run = 1
    /\ prev' = [h5file |-> h5file, dim_candidates |-> dim_candidates,
                classification |-> classification, jsonld |-> jsonld]
    /\ run' = 2
    /\ pc' = "open"
    /\ dim_candidates' = {}
    /\ classification' = EmptyClassification
    /\ jsonld' = NoDocument
    /\ UNCHANGED h5file

NextTwice == ClassifyDatasets \/ BuildDocument \/ RunSame

SpecTwice == InitTwice /\ [][NextTwice]_vars

-----------------------------------------------------------------------------
(* Vocabulary of the claims *)

\* the descriptor collection of the current run
DatasetsInfo == Visititems(h5file)

Classified == pc \in {"classified", "built"}

InGroup(cls, g, info) == \E j \in 1..Len(cls[g]) : cls[g][j] = info

GroupNames == {"measures", "dimensions", "attributes"}

\* how many times a path occurs in the three groups together
OccurrencesIn(infos, path) ==
    Cardinality({j \in 1..Len(infos) : infos[j].path = path})

Occurrences(cls, path) ==
    OccurrencesIn(cls.measures, path) + OccurrencesIn(cls.dimensions, path)
        + OccurrencesIn(cls.attributes, path)

\* the element type is numeric
NumericType(info) == info.dtype = "float64"

\* the display name (last path segment) contains "time", whatever the case
TimeInDisplayName(info) == StrContains(TimeWord, Lower(LastSegment(info.path)))

HasLabel(info) == \E j \in 1..Len(info.dims) : info.dims[j] # <<>>

RankOf(info) == IF info.shape.isNone THEN -1 ELSE Len(info.shape.t)

\* first axis lengths of the candidates with a non-empty shape
CandidateAxisLengths ==
    { DatasetsInfo[j].shape.t[1] :
        j \in { i \in 1..Len(DatasetsInfo) :
                  /\ DatasetsInfo[i].path \in dim_candidates
                  /\ RankOf(DatasetsInfo[i]) > 0 } }

\* the shape is non-empty and shares an axis length with a candidate's first axis
Aligned(info) ==
    /\ RankOf(info) > 0
    /\ \E a \in 1..Len(info.shape.t) : info.shape.t[a] \in CandidateAxisLengths

\* evaluating the taxonomy rules on info raises: an unreadable type tag on a
\* candidate, or an unavailable shape compared against a candidate's axis
EvaluationRaises(info) ==
    \/ info.path \in dim_candidates /\ ~DtypeReadable(info.dtype)
    \/ info.path \notin dim_candidates /\ info.shape.isNone /\ CandidateAxisLengths # {}

-----------------------------------------------------------------------------
(* C1 *)

\* C1: after the classification pass every input path is in exactly one of
\* measures, dimensions, attributes (no path missing, none twice), also for
\* nodes with an unreadable type tag or an unavailable shape.
C1_TotalityExclusivity ==
    Classified =>
        \A j \in 1..Len(DatasetsInfo) :
            Occurrences(classification, DatasetsInfo[j].path) = 1

-----------------------------------------------------------------------------
(* C2 *)

\* C2: a candidate is classified dimension iff its type is numeric or its
\* display name (the last path segment) contains "time", whatever the case;
\* otherwise it is an attribute.  Stated here in the direction the claim
\* singles out: a candidate classified dimension has a numeric type or a
\* display name that contains "time", so a non-numeric candidate whose
\* display name has no "time" is never a dimension, also when an enclosing
\* group name in its path contains "time".
C2_PriorityRule ==
    Classified =>
        \A j \in 1..Len(DatasetsInfo) :
            LET info == DatasetsInfo[j]
            IN (info.path \in dim_candidates
                    /\ InGroup(classification, "dimensions", info))
                  => (NumericType(info) \/ TimeInDisplayName(info))

-----------------------------------------------------------------------------
(* C3 *)

\* C3: a non-candidate is classified measure iff its shape is non-empty and
\* one of its axis lengths equals the first axis length of a candidate with
\* non-empty shape; otherwise it is classified attribute.
C3_ShapeAlignment ==
    Classified =>
        \A j \in 1..Len(DatasetsInfo) :
            LET info == DatasetsInfo[j]
            IN info.path \notin dim_candidates =>
                  /\ InGroup(classification, "measures", info) <=> Aligned(info)
                  /\ InGroup(classification, "attributes", info) <=> ~Aligned(info)
                  /\ ~InGroup(classification, "dimensions", info)

-----------------------------------------------------------------------------
(* C4 *)

\* C4: after the detector pass a path is a dimension candidate iff its
\* descriptor has exactly one axis or a non-empty axis label; no other path
\* is in the set.
C4_CandidateSet ==
    Classified =>
        /\ \A j \in 1..Len(DatasetsInfo) :
              LET info == DatasetsInfo[j]
              IN info.path \in dim_candidates <=> (RankOf(info) = 1 \/ HasLabel(info))
        /\ dim_candidates \subseteq {DatasetsInfo[j].path : j \in 1..Len(DatasetsInfo)}

\* a labelled rank-2 dataset is a candidate beside a scalar that is not
C4_Witness ==
    /\ Classified
    /\ \E j \in 1..Len(DatasetsInfo) :
          /\ RankOf(DatasetsInfo[j]) = 2
          /\ HasLabel(DatasetsInfo[j])
          /\ DatasetsInfo[j].path \in dim_candidates
    /\ \E j \in 1..Len(DatasetsInfo) :
          /\ RankOf(DatasetsInfo[j]) = 0
          /\ DatasetsInfo[j].path \notin dim_candidates

-----------------------------------------------------------------------------
(* C5 *)

\* C5: a descriptor whose evaluation raises is placed in the attributes group.
C5_FailureDefaultsToAttribute ==
    Classified =>
        \A j \in 1..Len(DatasetsInfo) :
            EvaluationRaises(DatasetsInfo[j])
                => InGroup(classification, "attributes", DatasetsInfo[j])

-----------------------------------------------------------------------------
(* C6 *)

\* the classified descriptors in group order, each with its group's role tag
ClassifiedInOrder(cls) ==
    [j \in 1..Len(cls.measures) |-> [info |-> cls.measures[j], role |-> "Measure"]]
        \o [j \in 1..Len(cls.dimensions) |->
                [info |-> cls.dimensions[j], role |-> "Dimension"]]
        \o [j \in 1..Len(cls.attributes) |->
                [info |-> cls.attributes[j], role |-> "Attribute"]]

\* C6: variableMeasured holds one entry per classified descriptor, measures
\* first, then dimensions, then attributes, each group in the classifier's
\* order; entry j carries the path of descriptor j (under the root "/"), the
\* role tag of its group and one property per local attribute, none when the
\* descriptor has no attribute.
C6_EntrySequence ==
    pc = "built" =>
        LET want == ClassifiedInOrder(classification)
            got == jsonld.variableMeasured
        IN /\ Len(got) = Len(want)
           /\ \A j \in 1..Len(want) :
                 /\ j <= Len(got)
                 /\ got[j].dataset = <<"/">> \o want[j].info.path
                 /\ got[j].role = want[j].role
                 /\ Len(got[j].additionalProperty) = Len(want[j].info.attrs)

\* a measure without attributes is emitted before a dimension with attributes
C6_Witness ==
    /\ pc = "built"
    /\ Len(classification.measures) = 1
    /\ Len(classification.dimensions) = 1
    /\ classification.measures[1].attrs = <<>>
    /\ classification.dimensions[1].attrs # <<>>
    /\ Len(jsonld.variableMeasured) = 2
    /\ jsonld.variableMeasured[1].role = "Measure"
    /\ jsonld.variableMeasured[1].additionalProperty = <<>>
    /\ jsonld.variableMeasured[2].role = "Dimension"

-----------------------------------------------------------------------------
(* C7 *)

\* what a key or a value is to become: the text decoding of a byte string,
\* anything else unchanged
Carried(v) == IF v.kind = "bytes" THEN PyStr(Utf8Decode(v.val)) ELSE v

\* C7: every entry has one name/value pair per local attribute, in order;
\* byte strings are replaced by their text decoding, text and numbers are
\* carried unchanged.
C7_PropertyPairs ==
    pc = "built" =>
        LET want == ClassifiedInOrder(classification)
            got == jsonld.variableMeasured
        IN \A j \in 1..Len(want) :
              /\ j <= Len(got)
              /\ Len(got[j].additionalProperty) = Len(want[j].info.attrs)
              /\ \A a \in 1..Len(want[j].info.attrs) :
                    /\ got[j].additionalProperty[a].name = Carried(want[j].info.attrs[a].k)
                    /\ got[j].additionalProperty[a].value = Carried(want[j].info.attrs[a].v)

-----------------------------------------------------------------------------
(* C8 *)

\* C8: when the descriptor collection holds no array node the pipeline fails
\* instead of returning a document.
C8_EmptyInputFails ==
    DatasetsInfo = <<>> => pc # "built"

-----------------------------------------------------------------------------
(* C9 *)

\* C9: a second run on the same descriptor collection in the same iteration
\* order, with the same document name, returns the document, the candidate
\* set and the classification of the first run, whatever the order in which
\* each run iterates its candidate set.
C9_Determinism ==
    (run = 2 /\ pc = "built" /\ DatasetsInfo = Visititems(prev.h5file)) =>
        /\ jsonld = prev.jsonld
        /\ classification = prev.classification
        /\ dim_candidates = prev.dim_candidates

\* the candidates of the file whose shape has an axis
ShapedCandidates ==
    { j \in 1..Len(DatasetsInfo) :
        /\ DatasetsInfo[j].path \in dim_candidates
        /\ RankOf(DatasetsInfo[j]) > 0 }

\* the second run has rebuilt the document of a file with two candidates of
\* different first axis lengths and a measure that has an axis of the one
\* length and none of the other: whichever candidate the set yields first,
\* one of the two runs had to go on to the second to find the measure
C9_Witness ==
    /\ run = 2
    /\ pc = "built"
    /\ h5file = prev.h5file
    /\ Len(DatasetsInfo) = 3
    /\ \E a, b \in ShapedCandidates :
          /\ DatasetsInfo[a].shape.t[1] # DatasetsInfo[b].shape.t[1]
          /\ Len(classification.measures) = 1
          /\ DatasetsInfo[a].shape.t[1] \in Range(classification.measures[1].shape.t)
          /\ DatasetsInfo[b].shape.t[1] \notin Range(classification.measures[1].shape.t)
    /\ Len(jsonld.variableMeasured) = 3
    /\ jsonld = prev.jsonld

-----------------------------------------------------------------------------
(* C10 *)

Members(cls, g) == {cls[g][j] : j \in 1..Len(cls[g])}

\* C10: whatever the order in which the same descriptors are visited, the
\* candidate set is the same and every path is in the same group.
C10_OrderIndependence ==
    (run = 2 /\ Classified) =>
        /\ dim_candidates = prev.dim_candidates
        /\ \A g \in GroupNames :
              Members(classification, g) = Members(prev.classification, g)

\* the second run visited a measure and a dimension in the opposite order
C10_Witness ==
    /\ run = 2
    /\ Classified
    /\ Len(h5file) = 2
    /\ h5file # prev.h5file
    /\ Len(classification.measures) = 1
    /\ Len(classification.dimensions) = 1
    /\ classification.measures = prev.classification.measures

-----------------------------------------------------------------------------
(* C11 *)

\* a label read of some dataset of the file fails
SomeLabelReadFails ==
    \E j \in 1..Len(h5file) :
        /\ h5file[j].kind = "Dataset"
        /\ \E a \in 1..Len(h5file[j].dims) : h5file[j].dims[a] \notin Labels

\* C11: a failing read of one node's axis labels does not abort the run: the
\* walk goes on, the node is recorded and the file is classified.
C11_ExtractionTolerance ==
    SomeLabelReadFails => pc # "raised"

-----------------------------------------------------------------------------
(* C12 *)

\* C12: every node of the dimensions group is a dimension candidate (rank 1
\* or a non-empty axis label); every node of the measures group is outside
\* the candidate set, has no non-empty axis label and at least two axes; the
\* measures group is empty when no candidate has a non-empty shape.
C12_MembershipBoundedByCandidacy ==
    Classified =>
        /\ \A j \in 1..Len(classification.dimensions) :
              LET info == classification.dimensions[j]
              IN /\ info.path \in dim_candidates
                 /\ RankOf(info) = 1 \/ HasLabel(info)
        /\ \A j \in 1..Len(classification.measures) :
              LET info == classification.measures[j]
              IN /\ info.path \notin dim_candidates
                 /\ ~HasLabel(info)
                 /\ RankOf(info) >= 2
        /\ CandidateAxisLengths = {} => classification.measures = <<>>

\* an unlabelled rank-2 measure beside a dimension that is a candidate by
\* its label alone
C12_Witness ==
    /\ Classified
    /\ Len(classification.measures) = 1
    /\ Len(classification.dimensions) = 1
    /\ RankOf(classification.measures[1]) = 2
    /\ RankOf(classification.dimensions[1]) = 2
    /\ HasLabel(classification.dimensions[1])

====
